---- MODULE Spec2Model ----
(***************************************************************************)
(* Model of go-i3bar (src/i3bar.go): the i3bar protocol stream.            *)
(*                                                                         *)
(* Bytes are one-character strings, a Go string or []byte is a sequence   *)
(* of them.  An error is the sequence of its messages, outermost first:   *)
(* errors.Wrap(e, m) is <<m>> \o e and the nil error is <<>>.              *)
(* A JSON encoding is built as the sequence of its tokens (a punctuation   *)
(* byte, or the bytes of one string, number, true, false or null), which   *)
(* the encoder concatenates into the bytes it writes.                      *)
(***************************************************************************)
EXTENDS Integers, Sequences, FiniteSets, TLC

(***************************************************************************)
(* Bounds of the model.                                                    *)
(***************************************************************************)
\* number of goroutines that call SendLine and Close
NumProcs == 2
\* total number of SendLine/Close calls started in one behaviour
MaxCalls == 2
\* number of sink writes that the sink rejects in one behaviour
MaxFails == 1
\* number of bytes the sink takes in one step of a Write
PieceLen == 16

Procs == 1..NumProcs

(***************************************************************************)
(* Errors.                                                                 *)
(***************************************************************************)
NoErr == <<>>
SinkErr == <<"sink: write rejected">>
Wrap(err, msg) == <<msg>> \o err

MsgHeader == "Failed to send header"
\* the message of the header phase pasted into the next phase
MsgOpenPasted == "Failed to send header"
MsgOpen == "Failed to start infinite json array"
MsgLine == "Failed to encode status line into json stream"
MsgClose == "Failed to close infinite json array"

(***************************************************************************)
(* Alignment and Markup: the enumerated values and their text encoding.    *)
(***************************************************************************)
Left == 0
Center == 1
Right == 2
NoMarkup == 0
Pango == 1

\* result of a marshalling step: what it produced and the error
Ok(out) == [err |-> NoErr, out |-> out]
Fail(err) == [err |-> err, out |-> <<>>]

AlignmentMarshalText(a) ==
  CASE a = Left   -> Ok(<<"l", "e", "f", "t">>)
    [] a = Center -> Ok(<<"c", "e", "n", "t", "e", "r">>)
    [] a = Right  -> Ok(<<"r", "i", "g", "h", "t">>)
    [] OTHER      -> Fail(<<"unknown alignment: " \o ToString(a)>>)

MarkupMarshalText(m) ==
  CASE m = NoMarkup -> Ok(<<"n", "o", "n", "e">>)
    [] m = Pango    -> Ok(<<"p", "a", "n", "g", "o">>)
    [] OTHER        -> Fail(<<"unknown markup: " \o ToString(m)>>)

(***************************************************************************)
(* Decoding: strings.ToLower over the ASCII letters, and UnmarshalText.    *)
(* An UnmarshalText call gives the value its receiver holds on return and  *)
(* the error; the message of errors.Errorf("...: %s", string(b)) is the    *)
(* bytes of the format's text followed by the bytes of b.                  *)
(***************************************************************************)
LowerLetters == <<"a", "b", "c", "d", "e", "f", "g", "h", "i", "j", "k", "l", "m",
                "n", "o", "p", "q", "r", "s", "t", "u", "v", "w", "x", "y", "z">>
UpperLetters == <<"A", "B", "C", "D", "E", "F", "G", "H", "I", "J", "K", "L", "M",
                "N", "O", "P", "Q", "R", "S", "T", "U", "V", "W", "X", "Y", "Z">>

\* unicode.ToLower on one ASCII byte
ToLowerByte(c) ==
  IF \E i \in DOMAIN UpperLetters : UpperLetters[i] = c
    THEN LowerLetters[CHOOSE i \in DOMAIN UpperLetters : UpperLetters[i] = c]
    ELSE c

\* strings.ToLower
ToLower(s) == [i \in DOMAIN s |-> ToLowerByte(s[i])]

\* a comparison that takes the text as it is
FoldNone(b) == b

\* the text the switch of UnmarshalText compares: strings.ToLower(string(b))
Fold(b) == ToLower(b)

UnknownAlignment == <<"u", "n", "k", "n", "o", "w", "n",
                     " ", "a", "l", "i", "g", "n", "m", "e", "n", "t", ":", " ">>
UnknownMarkup == <<"u", "n", "k", "n", "o", "w", "n", " ", "m", "a", "r", "k", "u", "p",
                  ":", " ">>

\* the result of (a *Alignment).UnmarshalText(b): *a on return and the error
Decoded(v) == [val |-> v, err |-> NoErr]
Undecoded(v, msg) == [val |-> v, err |-> <<msg>>]

\* a decoder that clears its receiver before it looks at the text
AlignmentUnmarshalTextClearing(a, b) ==
  LET s == Fold(b)
  IN  CASE s = <<"l", "e", "f", "t">>           -> Decoded(Left)
        [] s = <<"c", "e", "n", "t", "e", "r">> -> Decoded(Center)
        [] s = <<"r", "i", "g", "h", "t">>      -> Decoded(Right)
        [] OTHER -> Undecoded(Left, UnknownAlignment \o b)

AlignmentUnmarshalText(a, b) ==
  LET s == Fold(b)
  IN  CASE s = <<"l", "e", "f", "t">>           -> Decoded(Left)
        [] s = <<"c", "e", "n", "t", "e", "r">> -> Decoded(Center)
        [] s = <<"r", "i", "g", "h", "t">>      -> Decoded(Right)
        [] OTHER -> Undecoded(a, UnknownAlignment \o b)

MarkupUnmarshalText(m, b) ==
  LET s == Fold(b)
  IN  CASE s = <<"n", "o", "n", "e">>      -> Decoded(NoMarkup)
        [] s = <<"p", "a", "n", "g", "o">> -> Decoded(Pango)
        [] OTHER -> Undecoded(m, UnknownMarkup \o b)

(***************************************************************************)
(* encoding/json as the program uses it: the tokens of the compact         *)
(* encoding of strings, integers, booleans, structs with omitempty, slices *)
(* and nil pointers.                                                       *)
(***************************************************************************)
RECURSIVE Flatten(_)
Flatten(ss) == IF ss = <<>> THEN <<>> ELSE Head(ss) \o Flatten(Tail(ss))

RECURSIVE Join(_)
\* the token sequences ss separated by comma tokens
Join(ss) ==
  IF ss = <<>> THEN <<>>
  ELSE IF Len(ss) = 1 THEN Head(ss)
  ELSE Head(ss) \o << <<",">> >> \o Join(Tail(ss))

\* one byte of a string as encoding/json writes it (escapeHTML is on)
EscapeByte(c) ==
  CASE c = "\""  -> <<"\\", "\"">>
    [] c = "\\"  -> <<"\\", "\\">>
    [] c = "\n"  -> <<"\\", "n">>
    [] c = "<"   -> <<"\\", "u", "0", "0", "3", "c">>
    [] c = ">"   -> <<"\\", "u", "0", "0", "3", "e">>
    [] c = "&"   -> <<"\\", "u", "0", "0", "2", "6">>
    [] OTHER     -> <<c>>

EncString(s) ==
  <<"\"">> \o Flatten([i \in 1..Len(s) |-> EscapeByte(s[i])]) \o <<"\"">>

Digit(d) == <<"0", "1", "2", "3", "4", "5", "6", "7", "8", "9">>[d + 1]

RECURSIVE EncNat(_)
EncNat(n) == IF n < 10 THEN <<Digit(n)>> ELSE EncNat(n \div 10) \o <<Digit(n % 10)>>

EncInt(n) == IF n < 0 THEN <<"-">> \o EncNat(0 - n) ELSE EncNat(n)

EncBool(b) == IF b THEN <<"t", "r", "u", "e">> ELSE <<"f", "a", "l", "s", "e">>

EncNull == <<"n", "u", "l", "l">>

\* a field without omitempty: emitted whatever its value
FieldAlways(key, emitted, value) == << <<EncString(key), <<":">>, value>> >>

\* a struct field whose value is one token: the tokens of its key, the colon
\* and the value when it is emitted, nothing when omitted
Field(key, emitted, value) ==
  IF emitted THEN << <<EncString(key), <<":">>, value>> >> ELSE <<>>

EncObject(fields) == << <<"{">> >> \o Join(fields) \o << <<"}">> >>

K_version == <<"v", "e", "r", "s", "i", "o", "n">>
K_stop_signal == <<"s", "t", "o", "p", "_", "s", "i", "g", "n", "a", "l">>
K_cont_signal == <<"c", "o", "n", "t", "_", "s", "i", "g", "n", "a", "l">>
K_click_events == <<"c", "l", "i", "c", "k", "_", "e", "v", "e", "n", "t", "s">>
K_name == <<"n", "a", "m", "e">>
K_instance == <<"i", "n", "s", "t", "a", "n", "c", "e">>
K_full_text == <<"f", "u", "l", "l", "_", "t", "e", "x", "t">>
K_short_text == <<"s", "h", "o", "r", "t", "_", "t", "e", "x", "t">>
K_color == <<"c", "o", "l", "o", "r">>
K_background == <<"b", "a", "c", "k", "g", "r", "o", "u", "n", "d">>
K_border == <<"b", "o", "r", "d", "e", "r">>
K_min_width == <<"m", "i", "n", "_", "w", "i", "d", "t", "h">>
K_align == <<"a", "l", "i", "g", "n">>
K_urgent == <<"u", "r", "g", "e", "n", "t">>
K_separator == <<"s", "e", "p", "a", "r", "a", "t", "o", "r">>
K_separator_block_width == <<"s", "e", "p", "a", "r", "a", "t", "o", "r", "_", "b", "l", "o", "c", "k", "_", "w", "i", "d", "t", "h">>
K_markup == <<"m", "a", "r", "k", "u", "p">>

\* Header: Version always, the other three fields omitempty
MarshalHeader(h) ==
  Ok(EncObject(
       Field(K_version, TRUE, EncInt(h.Version))
    \o Field(K_stop_signal, h.StopSignal # 0, EncInt(h.StopSignal))
    \o Field(K_cont_signal, h.ContSignal # 0, EncInt(h.ContSignal))
    \o Field(K_click_events, h.ClickEvents, EncBool(h.ClickEvents))))

\* the error encoding/json reports when a MarshalText method fails
MarshalerError(type, err) ==
  <<"json: error calling MarshalText for type " \o type>> \o err

\* Block: FullText always, every other field omitempty, in declaration order;
\* a nil *Block is null
MarshalBlock(b) ==
  IF b.isNil THEN Ok(<<EncNull>>)
  ELSE LET al == AlignmentMarshalText(b.Align)
           mk == MarkupMarshalText(b.Markup)
       IN  IF b.Align # 0 /\ al.err # NoErr
             THEN Fail(MarshalerError("i3bar.Alignment", al.err))
           ELSE IF b.Markup # 0 /\ mk.err # NoErr
             THEN Fail(MarshalerError("i3bar.Markup", mk.err))
           ELSE Ok(EncObject(
                   Field(K_name, b.Name # <<>>, EncString(b.Name))
                \o Field(K_instance, b.Instance # <<>>, EncString(b.Instance))
                \o Field(K_full_text, TRUE, EncString(b.FullText))
                \o Field(K_short_text, b.ShortText # <<>>, EncString(b.ShortText))
                \o Field(K_color, b.Color # <<>>, EncString(b.Color))
                \o Field(K_background, b.Background # <<>>, EncString(b.Background))
                \o Field(K_border, b.Border # <<>>, EncString(b.Border))
                \o Field(K_min_width, b.MinWidth # <<>>, EncString(b.MinWidth))
                \o Field(K_align, b.Align # 0, EncString(al.out))
                \o Field(K_urgent, b.Urgent, EncBool(b.Urgent))
                \o Field(K_separator, b.Separator, EncBool(b.Separator))
                \o Field(K_separator_block_width, b.SeparatorBlockWidth # 0,
                         EncInt(b.SeparatorBlockWidth))
                \o Field(K_markup, b.Markup # 0, EncString(mk.out))))

\* the first error among the results rs, NoErr when there is none
RECURSIVE FirstErr(_)
FirstErr(rs) ==
  IF rs = <<>> THEN NoErr
  ELSE IF Head(rs).err # NoErr THEN Head(rs).err
  ELSE FirstErr(Tail(rs))

\* StatusLine ([]*Block): a nil slice is null, otherwise an array of blocks
MarshalStatusLine(l) ==
  IF l.isNil THEN Ok(<<EncNull>>)
  ELSE LET rs == [i \in 1..Len(l.blocks) |-> MarshalBlock(l.blocks[i])]
       IN  IF FirstErr(rs) # NoErr THEN Fail(FirstErr(rs))
           ELSE Ok(<< <<"[">> >> \o Join([i \in 1..Len(rs) |-> rs[i].out])
                                 \o << <<"]">> >>)

(***************************************************************************)
(* json.Indent as Encoder.SetIndent("", "    ") applies it to the compact  *)
(* encoding: a newline and the indentation after an opening bracket (not   *)
(* in an empty object or array), after a comma and before a closing        *)
(* bracket, a space after a colon, every other token as it is.             *)
(***************************************************************************)
IndentValue == <<" ", " ", " ", " ">>

RECURSIVE Repeat(_, _)
Repeat(s, n) == IF n <= 0 THEN <<>> ELSE s \o Repeat(s, n - 1)

AppendNewline(depth) == <<"\n">> \o Repeat(IndentValue, depth)

RECURSIVE IndentFrom(_, _, _, _)
IndentFrom(src, i, depth, needIndent) ==
  IF i > Len(src) THEN <<>>
  ELSE
    LET c    == src[i]
        shut == c \in {<<"}">>, <<"]">>}
        open == needIndent /\ ~shut
        d    == IF open THEN depth + 1
                ELSE IF shut /\ ~needIndent THEN depth - 1
                ELSE depth
        pre  == IF open \/ (shut /\ ~needIndent) THEN AppendNewline(d) ELSE <<>>
        post == CASE c = <<",">> -> AppendNewline(d)
                  [] c = <<":">> -> <<" ">>
                  [] OTHER       -> <<>>
    IN  pre \o c \o post
            \o IndentFrom(src, i + 1, d, c \in {<<"{">>, <<"[">>})

Indent(src) == IndentFrom(src, 1, 0, FALSE)

\* the bytes json.Encoder.Encode hands to the sink in one Write for a value
\* whose compact encoding has the tokens ts: the encoding and a newline,
\* indented when pretty is set
EncoderBytes(ts, indent) ==
  IF indent THEN Indent(ts \o << <<"\n">> >>) ELSE Flatten(ts) \o <<"\n">>

(***************************************************************************)
(* The values the callers pass.                                            *)
(***************************************************************************)
Header1 == [Version |-> 1, StopSignal |-> 0, ContSignal |-> 0, ClickEvents |-> FALSE]
Header2 == [Version |-> 1, StopSignal |-> 10, ContSignal |-> 12, ClickEvents |-> TRUE]
Headers == {Header1, Header2}

ZeroBlock ==
  [isNil |-> FALSE, Name |-> <<>>, Instance |-> <<>>, FullText |-> <<>>,
   ShortText |-> <<>>, Color |-> <<>>, Background |-> <<>>, Border |-> <<>>,
   MinWidth |-> <<>>, Align |-> Left, Urgent |-> FALSE, Separator |-> FALSE,
   SeparatorBlockWidth |-> 0, Markup |-> NoMarkup]

BlockA == [ZeroBlock EXCEPT !.FullText = <<"a">>]
BlockB == [ZeroBlock EXCEPT !.FullText = <<"b">>, !.Urgent = TRUE]

LineOf(blocks) == [isNil |-> FALSE, blocks |-> blocks]
NilLine == [isNil |-> TRUE, blocks |-> <<>>]
LineA == LineOf(<<BlockA>>)
LineB == LineOf(<<BlockB>>)
Lines == {LineA, LineB}

\* lines that SendLine may be given besides the well-formed ones: the nil
\* line, the empty line, a nil *Block, and blocks whose Align or Markup is not
\* one of the defined values
NilBlock == [ZeroBlock EXCEPT !.isNil = TRUE]
BlockBadAlign == [BlockB EXCEPT !.Align = 3]
BlockBadMarkup == [BlockB EXCEPT !.Markup = 2]
EmptyLine == LineOf(<<>>)
LineAB == LineOf(<<BlockA, BlockB>>)
LineNilBlock == LineOf(<<BlockA, NilBlock>>)
LineBadAlign == LineOf(<<BlockA, BlockBadAlign>>)
LineBadMarkup == LineOf(<<BlockBadMarkup>>)
LineSets ==
  {{NilLine, EmptyLine}, {LineNilBlock, LineAB}, {LineBadAlign, LineA},
   {LineBadMarkup, LineB}}

(***************************************************************************)
(* Inputs of the text codecs and of the Block encoding when they are run   *)
(* on their own.                                                           *)
(***************************************************************************)
AlignmentVariants == {Left, Center, Right}
MarkupVariants == {NoMarkup, Pango}

ToUpperByte(c) ==
  IF \E i \in DOMAIN LowerLetters : LowerLetters[i] = c
    THEN UpperLetters[CHOOSE i \in DOMAIN LowerLetters : LowerLetters[i] = c]
    ELSE c

\* the lowercase, uppercase and mixed-case spellings of a name
Spellings(name) ==
  {[i \in DOMAIN name |-> IF i \in U THEN ToUpperByte(name[i]) ELSE name[i]] :
     U \in SUBSET DOMAIN name}

AlignmentNames == {<<"l", "e", "f", "t">>, <<"c", "e", "n", "t", "e", "r">>,
                   <<"r", "i", "g", "h", "t">>}
MarkupNames == {<<"n", "o", "n", "e">>, <<"p", "a", "n", "g", "o">>}

\* texts that spell no variant
OtherTexts ==
  {<<>>, <<"u", "p">>, <<"U", "P">>, <<"l", "e", "f">>, <<"l", "e", "f", "t", "t">>,
   <<" ", "l", "e", "f", "t">>, <<"n", "o", "n">>, <<"n", "o", "n", "e", "e">>, <<"l", "-", "f", "t">>}

AlignmentTexts == UNION {Spellings(n) : n \in AlignmentNames} \cup MarkupNames \cup OtherTexts
MarkupTexts == UNION {Spellings(n) : n \in MarkupNames} \cup AlignmentNames \cup OtherTexts

\* the optional fields of Block, each with non-zero values to set it to
OptionalValues ==
  [Name |-> {<<"n">>}, Instance |-> {<<"i">>}, ShortText |-> {<<"s">>},
   Color |-> {<<"#", "f", "f", "0", "0", "0", "0">>}, Background |-> {<<"#", "0">>},
   Border |-> {<<"#", "1">>}, MinWidth |-> {<<"9", "9">>},
   Align |-> {Center, Right}, Urgent |-> {TRUE}, Separator |-> {TRUE},
   SeparatorBlockWidth |-> {9, -1}, Markup |-> {Pango}]

OptionalFields == DOMAIN OptionalValues

\* a Block with the one field f set to v
BlockWith(f, v) == [ZeroBlock EXCEPT ![f] = v]

\* the call under study: a text codec (op) of a value v encoded and then
\* decoded (round), or of a text decoded, into a variable that holds a0 before
\* and a after; or a Block (with its one field set) encoded
NewProbe(op, stage, round, v, a0, text, field, block) ==
  [op |-> op, stage |-> stage, round |-> round, v |-> v, a0 |-> a0, a |-> a0,
   text |-> text, err |-> NoErr, field |-> field, block |-> block, out |-> <<>>]

NoProbe == NewProbe("none", "done", FALSE, 0, 0, <<>>, "none", ZeroBlock)

Probes ==
  {NewProbe("Alignment", "encode", TRUE, v, a0, <<>>, "none", ZeroBlock) :
     v \in AlignmentVariants \cup {3}, a0 \in AlignmentVariants \cup {7}}
  \cup
  {NewProbe("Alignment", "decode", FALSE, 0, a0, t, "none", ZeroBlock) :
     t \in AlignmentTexts, a0 \in AlignmentVariants \cup {7}}
  \cup
  {NewProbe("Markup", "encode", TRUE, v, a0, <<>>, "none", ZeroBlock) :
     v \in MarkupVariants \cup {2}, a0 \in MarkupVariants \cup {7}}
  \cup
  {NewProbe("Markup", "decode", FALSE, 0, a0, t, "none", ZeroBlock) :
     t \in MarkupTexts, a0 \in MarkupVariants \cup {7}}
  \cup
  {NewProbe("Block", "encode", FALSE, 0, 0, <<>>, "none", b) : b \in {ZeroBlock, BlockA}}
  \cup
  UNION {{NewProbe("Block", "encode", FALSE, 0, 0, <<>>, f, BlockWith(f, v)) :
            v \in OptionalValues[f]} : f \in OptionalFields}

(***************************************************************************)
(* State.                                                                  *)
(*   pretty, header  the arguments of NewStream                            *)
(*   nsPc            position of the NewStream call                        *)
(*   stream, nsErr   what NewStream returned: "none" while it runs, "nil"  *)
(*                   or "ok", and its error                                *)
(*   encErr          the error the json.Encoder s.e keeps after a failed   *)
(*                   Write                                                 *)
(*   wMux            s.wMux: 0 when unlocked, else the goroutine holding it*)
(*   sink            the bytes the sink w has taken so far                 *)
(*   owner           for each byte of sink, the Write call that wrote it   *)
(*   writes          the Write calls made on the sink, in the order they   *)
(*                   began                                                 *)
(*   calls           the SendLine and Close calls, in the order they began *)
(*   pc, cid         position and current call of each goroutine           *)
(*   cur             the Write call each goroutine is in (0: none);        *)
(*                   goroutine 0 runs NewStream                            *)
(*   lines           the status lines the callers pass to SendLine         *)
(*   budget          the number of SendLine and Close calls the callers    *)
(*                   make in all                                           *)
(*   rpos            the read position of the byte source r                *)
(*   probe           the call under study when a codec is run on its own   *)
(***************************************************************************)
VARIABLES pretty, header, nsPc, stream, nsErr, encErr, wMux, sink, owner,
          writes, calls, pc, cid, cur, lines, budget, rpos, probe

vars == <<pretty, header, nsPc, stream, nsErr, encErr, wMux, sink, owner,
          writes, calls, pc, cid, cur, lines, budget, rpos, probe>>

Actors == 0..NumProcs

\* a NewStream whose caller holds the stream before the header is written
StreamEarly == "ok"

\* what the caller of NewStream holds while NewStream runs: no stream yet
StreamAtStart == "none"

\* the stream before NewStream is called
InitStream ==
  /\ nsPc = "encode"
  /\ stream = StreamAtStart
  /\ nsErr = NoErr
  /\ encErr = NoErr
  /\ wMux = 0
  /\ sink = <<>>
  /\ owner = <<>>
  /\ writes = <<>>
  /\ calls = <<>>
  /\ pc = [p \in Procs |-> "idle"]
  /\ cid = [p \in Procs |-> 0]
  /\ cur = [a \in Actors |-> 0]
  /\ rpos = 0

Init ==
  /\ pretty \in BOOLEAN
  /\ header \in Headers
  /\ lines = Lines
  /\ budget = MaxCalls
  /\ probe = NoProbe
  /\ InitStream

(***************************************************************************)
(* The sink: an io.Writer.  A Write(req) takes the bytes of req piece by   *)
(* piece, PieceLen bytes at a time; it returns nil once it has taken them  *)
(* all, and it may reject the write, returning an error, before it took    *)
(* anything or after it took a part.                                       *)
(***************************************************************************)
\* the numbers of pieces after which the sink may reject a Write
RejectAfter == {0, 1}

Min(a, b) == IF a < b THEN a ELSE b

\* a Write call: which phase and which call (0: NewStream) made it, the bytes
\* it was given, the length of the sink when it began, the number of bytes
\* taken so far, whether it has returned and the error it returned
NewWrite(kind, call, req) ==
  [kind |-> kind, call |-> call, req |-> req, at |-> Len(sink), n |-> 0,
   done |-> FALSE, err |-> NoErr]

FailCount == Cardinality({w \in DOMAIN writes : writes[w].err # NoErr})

\* goroutine a enters w.Write(req)
BeginWrite(a, kind, call, req) ==
  /\ writes' = Append(writes, NewWrite(kind, call, req))
  /\ cur' = [cur EXCEPT ![a] = Len(writes) + 1]

InWrite(a) == cur[a] # 0 /\ ~writes[cur[a]].done

WriteReturned(a) == cur[a] # 0 /\ writes[cur[a]].done

SinkTake(a) ==
  /\ InWrite(a)
  /\ LET w == cur[a]
         n == writes[w].n
         k == Min(PieceLen, Len(writes[w].req) - n)
     IN  /\ sink' = sink \o SubSeq(writes[w].req, n + 1, n + k)
         /\ owner' = owner \o [i \in 1..k |-> w]
         /\ writes' = [writes EXCEPT ![w].n = n + k,
                                     ![w].done = (n + k = Len(writes[w].req))]
  /\ UNCHANGED <<probe, lines, budget, rpos, pretty, header, nsPc, stream, nsErr, encErr, wMux, calls, pc, cid, cur>>

SinkReject(a) ==
  /\ InWrite(a)
  /\ FailCount < MaxFails
  /\ writes[cur[a]].n \in {PieceLen * k : k \in RejectAfter}
  /\ writes' = [writes EXCEPT ![cur[a]].done = TRUE, ![cur[a]].err = SinkErr]
  /\ UNCHANGED <<probe, lines, budget, rpos, pretty, header, nsPc, stream, nsErr, encErr, wMux, sink, owner,
                 calls, pc, cid, cur>>

(***************************************************************************)
(* json.Encoder.Encode(v), in two steps around its single Write:           *)
(* EncodeStart gives the error Encode returns without writing (the kept    *)
(* error of an earlier failed Write, or the marshalling error) and the     *)
(* bytes it writes otherwise.                                              *)
(***************************************************************************)
\* an Encode that writes whatever was marshalled, whether marshalling failed
\* or not
EncodeStartUnchecked(kept, m, indent) ==
  IF kept # NoErr THEN Fail(kept) ELSE Ok(EncoderBytes(m.out, indent))

\* an Encode that keeps no error: it marshals and writes on every call
EncodeStartFresh(kept, m, indent) ==
  IF m.err # NoErr THEN Fail(m.err) ELSE Ok(EncoderBytes(m.out, indent))

EncodeStart(kept, m, indent) ==
  IF kept # NoErr THEN Fail(kept)
  ELSE IF m.err # NoErr THEN Fail(m.err)
  ELSE Ok(EncoderBytes(m.out, indent))

\* the error the encoder keeps after its Write returned werr
EncodeKeep(kept, werr) == IF werr # NoErr THEN werr ELSE kept

(***************************************************************************)
(* NewStream(w, r, pretty, h)                                              *)
(***************************************************************************)
\* a '[' followed by a newline
OpenBytesNewline == <<"[", "\n">>

\* the bytes NewStream writes after the header
OpenBytes == <<"[">>

\* a test that lets every error pass
FailedNever(err) == FALSE

\* the test NewStream makes on the error of a write: err != nil
Failed(err) == err # NoErr

\* a decoder that fills its buffer from r as soon as it is built
NewDecoderPrefetch(pos) == pos + 1

\* json.NewDecoder(r): the read position of r once the decoder is built; the
\* decoder reads r only when Decode is called
NewDecoder(pos) == pos

\* the stream is built with its encoder and its decoder; stream.e.Encode(h)
\* up to its Write
NewStreamEncodeHeader ==
  /\ nsPc = "encode"
  /\ LET e == EncodeStart(encErr, MarshalHeader(header), pretty)
     IN  IF Failed(e.err)
           THEN /\ nsPc' = "done"
                /\ stream' = "nil"
                /\ nsErr' = Wrap(e.err, MsgHeader)
                /\ UNCHANGED <<writes, cur>>
           ELSE /\ nsPc' = "header"
                /\ BeginWrite(0, "header", 0, e.out)
                /\ UNCHANGED <<stream, nsErr>>
  /\ rpos' = NewDecoder(rpos)
  /\ UNCHANGED <<probe, lines, budget, pretty, header, encErr, wMux, sink, owner, calls, pc, cid>>

\* Encode(h) returned: return its error, or go on to w.Write("[")
NewStreamOpen ==
  /\ nsPc = "header"
  /\ WriteReturned(0)
  /\ LET werr == writes[cur[0]].err
     IN  /\ encErr' = EncodeKeep(encErr, werr)
         /\ IF Failed(werr)
              THEN /\ nsPc' = "done"
                   /\ stream' = "nil"
                   /\ nsErr' = Wrap(werr, MsgHeader)
                   /\ cur' = [cur EXCEPT ![0] = 0]
                   /\ UNCHANGED writes
              ELSE /\ nsPc' = "open"
                   /\ BeginWrite(0, "open", 0, OpenBytes)
                   /\ UNCHANGED <<stream, nsErr>>
  /\ UNCHANGED <<probe, lines, budget, rpos, pretty, header, wMux, sink, owner, calls, pc, cid>>

\* w.Write("[") returned: return nil and its error, or the stream
NewStreamReturn ==
  /\ nsPc = "open"
  /\ WriteReturned(0)
  /\ LET werr == writes[cur[0]].err
     IN  IF Failed(werr)
           THEN /\ stream' = "nil"
                /\ nsErr' = Wrap(werr, MsgOpen)
           ELSE /\ stream' = "ok"
                /\ nsErr' = NoErr
  /\ nsPc' = "done"
  /\ cur' = [cur EXCEPT ![0] = 0]
  /\ UNCHANGED <<probe, lines, budget, rpos, pretty, header, encErr, wMux, sink, owner, writes, calls, pc, cid>>

(***************************************************************************)
(* SendLine(b) and Close(), called by the goroutines on the stream that    *)
(* NewStream returned.                                                     *)
(***************************************************************************)
\* a SendLine or Close call: its argument, its turn in the order the calls
\* acquired the lock (0: not yet), the length of the sink when it acquired the
\* lock and when it returned (-1: not yet), and what it returned
NewCall(op, line) ==
  [op |-> op, line |-> line, turn |-> 0, len0 |-> -1, len1 |-> -1,
   returned |-> FALSE, err |-> NoErr]

Turns == Cardinality({c \in DOMAIN calls : calls[c].turn # 0})

Call(p, op, line) ==
  /\ stream = "ok"
  /\ pc[p] = "idle"
  /\ Len(calls) < budget
  /\ calls' = Append(calls, NewCall(op, line))
  /\ cid' = [cid EXCEPT ![p] = Len(calls) + 1]
  /\ pc' = [pc EXCEPT ![p] = "lock"]
  /\ UNCHANGED <<probe, lines, budget, rpos, pretty, header, nsPc, stream, nsErr, encErr, wMux, sink, owner,
                 writes, cur>>

CallSendLine(p) == \E l \in lines : Call(p, "SendLine", l)

CallClose(p) == Call(p, "Close", NilLine)

\* a Lock that never waits
CanLockAlways(m) == TRUE

\* sync.Mutex: Lock waits until the mutex is unlocked
CanLock(m) == m = 0

\* s.wMux.Lock()
Lock(p) ==
  /\ pc[p] = "lock"
  /\ CanLock(wMux)
  /\ wMux' = p
  /\ pc' = [pc EXCEPT ![p] = "locked"]
  /\ calls' = [calls EXCEPT ![cid[p]].turn = Turns + 1, ![cid[p]].len0 = Len(sink)]
  /\ UNCHANGED <<probe, lines, budget, rpos, pretty, header, nsPc, stream, nsErr, encErr, sink, owner,
                 writes, cid, cur>>

\* an Unlock placed at the end of the function: the error return skips it
UnlockOnSuccess(m, err) == IF err = NoErr THEN 0 ELSE m

\* the deferred s.wMux.Unlock() of a call that returns err
DeferredUnlock(m, err) == 0

\* the call of p returns err to its caller, after its deferred Unlock
Return(p, err) ==
  /\ wMux' = DeferredUnlock(wMux, err)
  /\ calls' = [calls EXCEPT ![cid[p]].returned = TRUE, ![cid[p]].err = err,
                            ![cid[p]].len1 = Len(sink)]
  /\ pc' = [pc EXCEPT ![p] = "idle"]
  /\ cur' = [cur EXCEPT ![p] = 0]

\* the error SendLine returns when Encode returned err
SendLineResult(err) == IF err # NoErr THEN Wrap(err, MsgLine) ELSE NoErr

\* a Close that drops the error of its Write
CloseResultSwallowed(err) == NoErr

\* the error Close returns when w.Write returned err
CloseResult(err) == IF err # NoErr THEN Wrap(err, MsgClose) ELSE NoErr

\* a SendLine on a Stream that remembers a successful Close and refuses to
\* send after it
SendLineEncodeClosed(p) ==
  /\ pc[p] = "locked"
  /\ calls[cid[p]].op = "SendLine"
  /\ LET e == EncodeStart(encErr, MarshalStatusLine(calls[cid[p]].line), pretty)
         closed == \E c \in DOMAIN calls :
                     /\ calls[c].op = "Close"
                     /\ calls[c].returned
                     /\ calls[c].err = NoErr
     IN  IF closed \/ e.err # NoErr
           THEN /\ Return(p, SendLineResult(IF closed THEN <<"stream is closed">>
                                                      ELSE e.err))
                /\ UNCHANGED writes
           ELSE /\ BeginWrite(p, "line", cid[p], e.out)
                /\ pc' = [pc EXCEPT ![p] = "write"]
                /\ UNCHANGED <<wMux, calls>>
  /\ UNCHANGED <<probe, lines, budget, rpos, pretty, header, nsPc, stream, nsErr, encErr, sink, owner, cid>>

\* SendLine: s.e.Encode(b) up to its Write; when Encode fails before it
\* writes, SendLine returns
SendLineEncode(p) ==
  /\ pc[p] = "locked"
  /\ calls[cid[p]].op = "SendLine"
  /\ LET e == EncodeStart(encErr, MarshalStatusLine(calls[cid[p]].line), pretty)
     IN  IF e.err # NoErr
           THEN /\ Return(p, SendLineResult(e.err))
                /\ UNCHANGED writes
           ELSE /\ BeginWrite(p, "line", cid[p], e.out)
                /\ pc' = [pc EXCEPT ![p] = "write"]
                /\ UNCHANGED <<wMux, calls>>
  /\ UNCHANGED <<probe, lines, budget, rpos, pretty, header, nsPc, stream, nsErr, encErr, sink, owner, cid>>

\* SendLine: Encode's Write returned, Encode keeps its error, SendLine returns
SendLineReturn(p) ==
  /\ pc[p] = "write"
  /\ calls[cid[p]].op = "SendLine"
  /\ WriteReturned(p)
  /\ encErr' = EncodeKeep(encErr, writes[cur[p]].err)
  /\ Return(p, SendLineResult(writes[cur[p]].err))
  /\ UNCHANGED <<probe, lines, budget, rpos, pretty, header, nsPc, stream, nsErr, sink, owner, writes, cid>>

\* a ']' followed by a newline
CloseBytesNewline == <<"]", "\n">>

\* two ']'
CloseBytesTwice == <<"]", "]">>

\* the bytes Close writes
CloseBytes == <<"]">>

\* a Close that goes through the encoder: when the encoder holds the error of
\* a failed element write, Close returns it and writes nothing
CloseWriteThroughEncoder(p) ==
  /\ pc[p] = "locked"
  /\ calls[cid[p]].op = "Close"
  /\ IF encErr # NoErr
       THEN /\ Return(p, CloseResult(encErr))
            /\ UNCHANGED writes
       ELSE /\ BeginWrite(p, "close", cid[p], CloseBytes)
            /\ pc' = [pc EXCEPT ![p] = "write"]
            /\ UNCHANGED <<wMux, calls>>
  /\ UNCHANGED <<probe, lines, budget, rpos, pretty, header, nsPc, stream, nsErr, encErr, sink, owner, cid>>

\* Close: s.w.Write("]") begins
CloseWrite(p) ==
  /\ pc[p] = "locked"
  /\ calls[cid[p]].op = "Close"
  /\ BeginWrite(p, "close", cid[p], CloseBytes)
  /\ pc' = [pc EXCEPT ![p] = "write"]
  /\ UNCHANGED <<probe, lines, budget, rpos, pretty, header, nsPc, stream, nsErr, encErr, wMux, sink, owner,
                 calls, cid>>

\* Close: the Write returned, Close returns
CloseReturn(p) ==
  /\ pc[p] = "write"
  /\ calls[cid[p]].op = "Close"
  /\ WriteReturned(p)
  /\ Return(p, CloseResult(writes[cur[p]].err))
  /\ UNCHANGED <<probe, lines, budget, rpos, pretty, header, nsPc, stream, nsErr, encErr, sink, owner, writes, cid>>

Next ==
  \/ NewStreamEncodeHeader
  \/ NewStreamOpen
  \/ NewStreamReturn
  \/ \E a \in Actors : SinkTake(a)
  \/ \E a \in Actors : SinkReject(a)
  \/ \E p \in Procs : CallSendLine(p)
  \/ \E p \in Procs : CallClose(p)
  \/ \E p \in Procs : Lock(p)
  \/ \E p \in Procs : SendLineEncode(p)
  \/ \E p \in Procs : SendLineReturn(p)
  \/ \E p \in Procs : CloseWrite(p)
  \/ \E p \in Procs : CloseReturn(p)

Spec == Init /\ [][Next]_vars

(***************************************************************************)
(* The text codecs and the Block encoding run on their own: one call of    *)
(* MarshalText, UnmarshalText or json.Marshal of a Block per step, on     *)
(* inputs drawn from Probes.                                               *)
(***************************************************************************)
streamVars == <<pretty, header, nsPc, stream, nsErr, encErr, wMux, sink, owner,
                writes, calls, pc, cid, cur, lines, budget, rpos>>

InitCodec ==
  /\ probe \in Probes
  /\ pretty = FALSE
  /\ header = Header1
  /\ lines = Lines
  /\ budget = MaxCalls
  /\ InitStream

\* text, err := v.MarshalText()
Marshalled(r) ==
  IF r.err # NoErr THEN [probe EXCEPT !.stage = "done", !.err = r.err]
  ELSE [probe EXCEPT !.stage = "decode", !.text = r.out]

\* err := a.UnmarshalText(text)
Unmarshalled(r) == [probe EXCEPT !.stage = "done", !.a = r.val, !.err = r.err]

AlignmentMarshal ==
  /\ probe.op = "Alignment"
  /\ probe.stage = "encode"
  /\ probe' = Marshalled(AlignmentMarshalText(probe.v))
  /\ UNCHANGED streamVars

AlignmentUnmarshal ==
  /\ probe.op = "Alignment"
  /\ probe.stage = "decode"
  /\ probe' = Unmarshalled(AlignmentUnmarshalText(probe.a, probe.text))
  /\ UNCHANGED streamVars

MarkupMarshal ==
  /\ probe.op = "Markup"
  /\ probe.stage = "encode"
  /\ probe' = Marshalled(MarkupMarshalText(probe.v))
  /\ UNCHANGED streamVars

MarkupUnmarshal ==
  /\ probe.op = "Markup"
  /\ probe.stage = "decode"
  /\ probe' = Unmarshalled(MarkupUnmarshalText(probe.a, probe.text))
  /\ UNCHANGED streamVars

BlockMarshal ==
  /\ probe.op = "Block"
  /\ probe.stage = "encode"
  /\ LET r == MarshalBlock(probe.block)
     IN  probe' = [probe EXCEPT !.stage = "done", !.out = r.out, !.err = r.err]
  /\ UNCHANGED streamVars

NextCodec ==
  \/ AlignmentMarshal
  \/ AlignmentUnmarshal
  \/ MarkupMarshal
  \/ MarkupUnmarshal
  \/ BlockMarshal

SpecCodec == InitCodec /\ [][NextCodec]_vars

(***************************************************************************)
(* The stream with callers that pass other lines: the nil line, the empty  *)
(* line, a line with a nil block, lines whose encoding fails.              *)
(***************************************************************************)
InitLines ==
  /\ pretty \in BOOLEAN
  /\ header = Header1
  /\ lines \in LineSets
  /\ budget = MaxCalls
  /\ probe = NoProbe
  /\ InitStream

SpecLines == InitLines /\ [][Next]_vars

(***************************************************************************)
(* The stream with callers that make one call more, all with one line.     *)
(***************************************************************************)
InitLong ==
  /\ pretty = FALSE
  /\ header = Header1
  /\ lines = {LineA}
  /\ budget = MaxCalls + 1
  /\ probe = NoProbe
  /\ InitStream

SpecLong == InitLong /\ [][Next]_vars

(***************************************************************************)
(* The stream under fair scheduling, for one header, compact output and    *)
(* callers that send the empty line.                                       *)
(* The sink goes on taking the bytes of a Write until the Write returns    *)
(* and a goroutine that holds the lock takes its next step: at any time    *)
(* at most one of these steps can be taken (NewStream runs before every    *)
(* call, and only the holder of the lock is past Lock), so one weak        *)
(* fairness condition on Run covers them.  The mutex is fair: a goroutine  *)
(* that waits in Lock while the mutex is unlocked again and again          *)
(* acquires it.                                                            *)
(***************************************************************************)
Run ==
  \/ \E a \in Actors : SinkTake(a)
  \/ \E p \in Procs : SendLineEncode(p) \/ SendLineReturn(p)
  \/ \E p \in Procs : CloseWrite(p) \/ CloseReturn(p)

Fairness == WF_vars(Run) /\ \A p \in Procs : SF_vars(Lock(p))

InitFair ==
  /\ pretty = FALSE
  /\ header = Header1
  /\ lines = {EmptyLine}
  /\ budget = MaxCalls
  /\ probe = NoProbe
  /\ InitStream

FairSpec == InitFair /\ [][Next]_vars /\ Fairness

(***************************************************************************)
(* Properties.                                                             *)
(***************************************************************************)
\* the phase and the call of the Write that wrote byte i of the sink
KindAt(i) == writes[owner[i]].kind
CallAt(i) == writes[owner[i]].call

\* the Write calls a SendLine or Close call made
WritesOf(c) ==
  {w \in DOMAIN writes : writes[w].call = c /\ writes[w].kind \in {"line", "close"}}

\* the bytes Encode writes for a line
LineBytes(l) == EncoderBytes(MarshalStatusLine(l).out, pretty)

\* the sink as NewStream leaves it when both its writes succeed
Preamble == EncoderBytes(MarshalHeader(header).out, pretty) \o <<"[">>

\* C1: the bytes one SendLine or Close call writes form a contiguous run of
\* the sink: between two bytes of one call there is no byte of another call
\* or of NewStream.
C1_NoInterleaving ==
  \A c \in DOMAIN calls :
    LET pos == {i \in DOMAIN owner : CallAt(i) = c}
    IN  \A i \in pos : (i + 1 \in pos) \/ (\A k \in pos : k <= i)

\* C1 happens: a call is in the middle of its Write, part of its bytes taken,
\* while another goroutine waits for the lock
C1_Witness ==
  \E p \in Procs : \E q \in Procs :
    /\ pc[p] = "write" /\ InWrite(p) /\ writes[cur[p]].n > 0
    /\ pc[q] = "lock"

\* the bijections of 1..n
Perms(n) == {f \in [1..n -> 1..n] : \A i \in 1..n : \E j \in 1..n : f[j] = i}

\* every call is a SendLine that has returned, the lines are pairwise
\* distinct and the sink took every write
C2_AllSent ==
  /\ stream = "ok"
  /\ calls # <<>>
  /\ FailCount = 0
  /\ \A c \in DOMAIN calls : calls[c].op = "SendLine" /\ calls[c].returned
  /\ \A c \in DOMAIN calls : \A d \in DOMAIN calls :
       c # d => calls[c].line # calls[d].line

\* C2: once N SendLine calls with distinct lines have all returned on a sink
\* that took every write, the sink is the preamble followed by the complete
\* encodings of the N lines, each once, in some order.
C2_AllLinesWhole ==
  C2_AllSent =>
    \E f \in Perms(Len(calls)) :
      sink = Preamble \o Flatten([i \in 1..Len(calls) |-> LineBytes(calls[f[i]].line)])

\* C2 happens: two SendLine calls ran concurrently, the second to begin
\* overtaking the first at the lock, so that their lines are on the sink in
\* the other order than the calls began
C2_Witness ==
  /\ C2_AllSent
  /\ Len(calls) = 2
  /\ sink = Preamble \o LineBytes(calls[2].line) \o LineBytes(calls[1].line)

\* the Write calls of a phase
WritesOfKind(k) == {w \in DOMAIN writes : writes[w].kind = k}

\* Write w has returned nil
Accepted(w) == writes[w].done /\ writes[w].err = NoErr

\* the place of a phase in the protocol: header, then '[', then elements and ']'
PhaseRank(k) == CASE k = "header" -> 1 [] k = "open" -> 2 [] OTHER -> 3

\* C3: the header is written once and the '[' once, the header before the
\* '[', and both before every element and every ']': at most one write of
\* each ever begins, exactly one of each has succeeded once the stream exists
\* or any SendLine or Close writes, and along the sink the bytes of the header
\* come first, then the '[', then the bytes of elements and ']'.
C3_HeaderThenOpenFirst ==
  /\ Cardinality(WritesOfKind("header")) <= 1
  /\ Cardinality(WritesOfKind("open")) <= 1
  /\ \A w \in WritesOfKind("header") : w = 1
  /\ \A w \in WritesOfKind("open") : w = 2 /\ writes[1].kind = "header" /\ Accepted(1)
  /\ (stream = "ok" \/ WritesOfKind("line") \cup WritesOfKind("close") # {})
       => /\ Len(writes) >= 2
          /\ writes[1].kind = "header" /\ Accepted(1)
          /\ writes[2].kind = "open" /\ Accepted(2)
          /\ writes[1].at = 0 /\ writes[2].at = writes[1].n
  /\ \A i \in DOMAIN owner :
       i < Len(owner) => PhaseRank(KindAt(i)) <= PhaseRank(KindAt(i + 1))

\* C3 happens: an element and a ']' are on the sink, after the header and '['
C3_Witness ==
  /\ \E i \in DOMAIN owner : KindAt(i) = "line"
  /\ \E i \in DOMAIN owner : KindAt(i) = "close"

\* the stream exists, the sink took every write, and every call has returned,
\* the calls having acquired the lock in the order they were made (as calls
\* made one after the other do)
C4_Sequential ==
  /\ stream = "ok"
  /\ FailCount = 0
  /\ \A c \in DOMAIN calls : calls[c].returned /\ calls[c].turn = c

\* the encoding of a value without the newline Encode appends
EncodingOnly(ts) == IF pretty THEN Indent(ts) ELSE Flatten(ts)

\* C4 as stated: the sink is enc(h), '[', then enc(li) for each SendLine and
\* ']' for Close, with no other byte in between.
C4_NoSeparatorAtAll ==
  C4_Sequential =>
    sink = EncodingOnly(MarshalHeader(header).out) \o <<"[">>
             \o Flatten([c \in DOMAIN calls |->
                  IF calls[c].op = "Close" THEN <<"]">>
                  ELSE EncodingOnly(MarshalStatusLine(calls[c].line).out)])

Version1Preamble ==
  <<"{", "\"", "v", "e", "r", "s", "i", "o", "n", "\"", ":", "1", "}", "\n", "[">>

LineAElement ==
  <<"[", "{", "\"", "f", "u", "l", "l", "_", "t", "e", "x", "t", "\"", ":",
    "\"", "a", "\"", "}", "]", "\n">>

\* C4 (amended): for calls made one after the other on a sink that takes every
\* write, the sink is enc(h), a newline, '[', then for each SendLine enc(li)
\* and a newline and for Close ']', with no comma and no other byte in
\* between; Header{Version:1} gives {"version":1}, newline, '[' and the line
\* of one block with FullText "a" adds [{"full_text":"a"}] and a newline.
C4_NewlineAfterEachValue ==
  /\ C4_Sequential =>
       sink = EncoderBytes(MarshalHeader(header).out, pretty) \o <<"[">>
                \o Flatten([c \in DOMAIN calls |->
                     IF calls[c].op = "Close" THEN <<"]">>
                     ELSE LineBytes(calls[c].line)])
  /\ (C4_Sequential /\ ~pretty /\ header = Header1) =>
       /\ SubSeq(sink, 1, Len(Version1Preamble)) = Version1Preamble
       /\ (calls # <<>> /\ calls[1].op = "SendLine" /\ calls[1].line = LineA) =>
            SubSeq(sink, Len(Version1Preamble) + 1,
                   Len(Version1Preamble) + Len(LineAElement)) = LineAElement

\* C4 happens: a SendLine, then a Close after it returned, on Header{Version:1}
C4_Witness ==
  /\ C4_Sequential /\ ~pretty /\ header = Header1
  /\ Len(calls) = 2
  /\ calls[1].op = "SendLine" /\ calls[1].line = LineA
  /\ calls[2].op = "Close"

\* C5: a Close whose sink write succeeded wrote the one byte ']' at the end of
\* the sink as it was when Close took the lock, nothing else was written
\* until it returned, and it returned nil.
C5_CloseWritesOneBracket ==
  \A w \in WritesOfKind("close") :
    Accepted(w) =>
      LET c == writes[w].call
      IN  /\ writes[w].n = 1
          /\ sink[writes[w].at + 1] = "]"
          /\ owner[writes[w].at + 1] = w
          /\ WritesOf(c) = {w}
          /\ calls[c].len0 = writes[w].at
          /\ calls[c].returned =>
               calls[c].err = NoErr /\ calls[c].len1 = calls[c].len0 + 1

\* C5 happens: a Close returned nil after a SendLine had written its element
C5_Witness ==
  \E c \in DOMAIN calls : \E d \in DOMAIN calls :
    /\ calls[c].op = "Close" /\ calls[c].returned /\ calls[c].err = NoErr
    /\ calls[d].op = "SendLine" /\ calls[d].returned /\ calls[d].err = NoErr
    /\ calls[d].turn < calls[c].turn

\* the places of the sink that hold a byte written by Close
ClosePos == {i \in DOMAIN owner : KindAt(i) = "close"}

\* at most one ']' of Close is on the sink and no element byte follows it
AtMostOneCloseAndLast ==
  /\ Cardinality(ClosePos) <= 1
  /\ \A i \in ClosePos : \A j \in (i + 1)..Len(owner) : KindAt(j) # "line"

\* C6 as stated: under any sequence of calls at most one ']' has been written
\* and no element is written after it.
C6_ClosedIsTerminal == AtMostOneCloseAndLast

\* the Close calls that have acquired the lock
Closes == {c \in DOMAIN calls : calls[c].op = "Close" /\ calls[c].turn # 0}

\* no call has acquired the lock after a Close call did
C6_ClosedLast ==
  \A c \in Closes : \A d \in DOMAIN calls : d # c => calls[d].turn < calls[c].turn

\* C6 (amended): at most one ']' has been written and no element follows it
\* as long as no call has acquired the lock after a Close call did (the
\* caller closes once, and last); the Stream itself keeps no closed state,
\* and the sink never holds more ']' than Close calls were made.
C6_ClosedOnceByCaller ==
  /\ C6_ClosedLast => AtMostOneCloseAndLast
  /\ Cardinality(ClosePos) <= Cardinality(Closes)

\* C6 happens: the one Close came last, after a SendLine, and wrote its ']'
C6_Witness ==
  /\ C6_ClosedLast
  /\ Cardinality(ClosePos) = 1
  /\ \E i \in DOMAIN owner : KindAt(i) = "line"

\* C7: a goroutine that is not inside a call (or only waits for the lock)
\* does not hold the lock: whenever a call has returned, with nil or with an
\* error, the mutex is held by a goroutine inside SendLine or Close or by none.
C7_LockReleasedOnReturn ==
  /\ \A p \in Procs : pc[p] \in {"idle", "lock"} => wMux # p
  /\ wMux # 0 => pc[wMux] \in {"locked", "write"}
  /\ (\A p \in Procs : pc[p] \notin {"locked", "write"}) => wMux = 0

\* C7 happens: a call returned an error and a later call acquired the lock
C7_Witness ==
  \E c \in DOMAIN calls : \E d \in DOMAIN calls :
    /\ calls[c].returned /\ calls[c].err # NoErr
    /\ calls[d].turn > calls[c].turn

\* C8: NewStream returns a Stream only when both writes succeeded, nil and an
\* error otherwise; after a failed header write it makes no other write.
C8_ConstructionFailure ==
  /\ nsPc # "done" => stream = "none"
  /\ nsPc = "done" => /\ stream \in {"nil", "ok"}
                      /\ stream = "nil" <=> nsErr # NoErr
  /\ stream = "ok" => /\ Len(writes) >= 2
                      /\ writes[1].kind = "header" /\ Accepted(1)
                      /\ writes[2].kind = "open" /\ Accepted(2)
  /\ \A w \in WritesOfKind("header") :
       writes[w].err # NoErr =>
         /\ Len(writes) = 1
         /\ Len(sink) = writes[w].n
         /\ nsPc = "done" => stream = "nil"
  /\ \A w \in WritesOfKind("open") :
       writes[w].err # NoErr =>
         /\ Len(writes) = 2
         /\ nsPc = "done" => stream = "nil"

\* C8 happens: the sink rejected the header after taking a part of it and
\* NewStream has returned
C8_Witness ==
  /\ nsPc = "done"
  /\ writes # <<>> /\ writes[1].err # NoErr /\ writes[1].n > 0

\* SendLine call c failed because the sink rejected its write, and SendLine
\* call d acquired the lock after it and has returned
C9_SentAfterFailure(c, d) ==
  /\ calls[c].op = "SendLine" /\ calls[c].returned
  /\ \E w \in WritesOf(c) : writes[w].err # NoErr
  /\ calls[d].op = "SendLine" /\ calls[d].returned
  /\ calls[d].turn > calls[c].turn

\* C9 as stated: the later SendLine makes a write attempt of its own and
\* returns nil when the sink accepts it.
C9_LaterSendLineWrites ==
  \A c \in DOMAIN calls : \A d \in DOMAIN calls :
    C9_SentAfterFailure(c, d) =>
      /\ WritesOf(d) # {}
      /\ \A w \in WritesOf(d) : Accepted(w) => calls[d].err = NoErr

\* C9 (amended): after a SendLine call has failed because the sink rejected
\* the write, every later SendLine call on the same Stream makes no write
\* attempt on the sink, leaves the sink as it is and returns the error of the
\* rejected write again, wrapped in the message of SendLine.
C9_LaterSendLineFails ==
  \A c \in DOMAIN calls : \A d \in DOMAIN calls :
    C9_SentAfterFailure(c, d) =>
      /\ WritesOf(d) = {}
      /\ calls[d].len1 = calls[d].len0
      /\ calls[d].err = <<"Failed to encode status line into json stream">> \o SinkErr

\* C9 happens: a SendLine returned after an earlier SendLine was rejected
C9_Witness ==
  \E c \in DOMAIN calls : \E d \in DOMAIN calls : C9_SentAfterFailure(c, d)

\* the error NewStream returned when the write of phase k failed, and the
\* errors of the calls whose write failed, all begin with the message msg(k)
PhaseMessages(hdr, open, line, close) ==
  /\ \A w \in DOMAIN writes :
       (writes[w].err # NoErr /\ writes[w].call = 0 /\ nsPc = "done") =>
         nsErr = <<IF writes[w].kind = "header" THEN hdr ELSE open>> \o writes[w].err
  /\ \A w \in DOMAIN writes :
       (writes[w].err # NoErr /\ writes[w].call # 0 /\ calls[writes[w].call].returned) =>
         calls[writes[w].call].err
           = <<IF writes[w].kind = "line" THEN line ELSE close>> \o writes[w].err

\* C10 as stated: the four phases wrap the sink's error in "failed to send
\* header", "failed to start infinite array", "failed to encode status line"
\* and "failed to close infinite array".
C10_MessagesAsQuoted ==
  PhaseMessages("failed to send header", "failed to start infinite array",
                "failed to encode status line", "failed to close infinite array")

\* C10 (amended): the four phases wrap the sink's error in "Failed to send
\* header", "Failed to start infinite json array", "Failed to encode status
\* line into json stream" and "Failed to close infinite json array", which are
\* pairwise distinct.
C10_MessagesOfTheCode ==
  /\ PhaseMessages("Failed to send header", "Failed to start infinite json array",
                   "Failed to encode status line into json stream",
                   "Failed to close infinite json array")
  /\ Cardinality({MsgHeader, MsgOpen, MsgLine, MsgClose}) = 4

\* C10 happens: the sink rejected the '[' and NewStream returned the error
C10_Witness ==
  /\ nsPc = "done"
  /\ Len(writes) = 2 /\ writes[2].kind = "open" /\ writes[2].err # NoErr

(***************************************************************************)
(* Properties of the text codecs and of the Block encoding (SpecCodec).    *)
(***************************************************************************)
\* the name of each variant, as the protocol spells it
VariantName(op, v) ==
  CASE op = "Alignment" /\ v = Left   -> <<"l", "e", "f", "t">>
    [] op = "Alignment" /\ v = Center -> <<"c", "e", "n", "t", "e", "r">>
    [] op = "Alignment" /\ v = Right  -> <<"r", "i", "g", "h", "t">>
    [] op = "Markup" /\ v = NoMarkup  -> <<"n", "o", "n", "e">>
    [] op = "Markup" /\ v = Pango     -> <<"p", "a", "n", "g", "o">>

Variants(op) == IF op = "Alignment" THEN AlignmentVariants ELSE MarkupVariants

IsCodecProbe == probe.op \in {"Alignment", "Markup"}

\* the variants whose name the text spells, in any mix of cases
Spelled(op, text) == {v \in Variants(op) : text \in Spellings(VariantName(op, v))}

\* C11: for every Alignment and every Markup variant v, encoding v yields its
\* lowercase name and decoding that text yields v again; and decoding any
\* lowercase, uppercase or mixed-case spelling of a variant's name yields that
\* variant, with no error.
C11_RoundTrip ==
  IsCodecProbe =>
    /\ (probe.round /\ probe.v \in Variants(probe.op) /\ probe.stage # "encode")
         => probe.text = VariantName(probe.op, probe.v)
    /\ (probe.round /\ probe.v \in Variants(probe.op) /\ probe.stage = "done")
         => probe.a = probe.v /\ probe.err = NoErr
    /\ (~probe.round /\ probe.stage = "done")
         => \A v \in Spelled(probe.op, probe.text) :
              probe.a = v /\ probe.err = NoErr

\* a mixed-case spelling of "center" was decoded into a variable that held Left
C11_Witness ==
  /\ probe.op = "Alignment"
  /\ ~probe.round
  /\ probe.stage = "done"
  /\ probe.text = <<"c", "E", "n", "T", "e", "R">>
  /\ probe.a0 = Left
  /\ probe.a = Center

\* whether the bytes of t occur in s
Contains(s, t) ==
  \E i \in 0..(Len(s) - Len(t)) : SubSeq(s, i + 1, i + Len(t)) = t

\* C12: decoding a text that spells no variant name, in any mix of cases,
\* returns an error whose message contains the text, and the variable decoded
\* into holds the value it held before the call, whatever that was.
C12_UnknownTextRejected ==
  (IsCodecProbe /\ ~probe.round /\ probe.stage = "done"
     /\ Spelled(probe.op, probe.text) = {})
    => /\ probe.err # NoErr
       /\ Contains(probe.err[1], probe.text)
       /\ probe.a = probe.a0
       /\ (probe.op = "Alignment" /\ probe.text = <<"u", "p">>)
            => probe.err = << <<"u", "n", "k", "n", "o", "w", "n", " ", "a",
                           "l", "i", "g", "n", "m", "e", "n", "t", ":",
                           " ", "u", "p">> >>

\* "UP" was decoded into an Alignment variable that held Right
C12_Witness ==
  /\ probe.op = "Alignment"
  /\ ~probe.round
  /\ probe.stage = "done"
  /\ probe.text = <<"U", "P">>
  /\ probe.a0 = Right
  /\ probe.a = Right
  /\ probe.err # NoErr

\* the keys of an encoded object: the tokens that a colon follows
Keys(ts) == {ts[i] : i \in {j \in 1..(Len(ts) - 1) : ts[j + 1] = <<":">>}}

Colons(ts) == Cardinality({j \in DOMAIN ts : ts[j] = <<":">>})

Quoted(name) == <<"\"">> \o name \o <<"\"">>

\* the key the protocol gives each optional field of a block
KeyOfField ==
  [Name |-> <<"n", "a", "m", "e">>,
   Instance |-> <<"i", "n", "s", "t", "a", "n", "c", "e">>,
   ShortText |-> <<"s", "h", "o", "r", "t", "_", "t", "e", "x", "t">>,
   Color |-> <<"c", "o", "l", "o", "r">>,
   Background |-> <<"b", "a", "c", "k", "g", "r", "o", "u", "n", "d">>,
   Border |-> <<"b", "o", "r", "d", "e", "r">>,
   MinWidth |-> <<"m", "i", "n", "_", "w", "i", "d", "t", "h">>,
   Align |-> <<"a", "l", "i", "g", "n">>,
   Urgent |-> <<"u", "r", "g", "e", "n", "t">>,
   Separator |-> <<"s", "e", "p", "a", "r", "a", "t", "o", "r">>,
   SeparatorBlockWidth |-> <<"s", "e", "p", "a", "r", "a", "t", "o",
                            "r", "_", "b", "l", "o", "c", "k", "_",
                            "w", "i", "d", "t", "h">>,
   Markup |-> <<"m", "a", "r", "k", "u", "p">>]

FullTextKey == Quoted(<<"f", "u", "l", "l", "_", "t", "e", "x", "t">>)

\* C13: a Block whose optional fields are all zero encodes to an object whose
\* only key is full_text, present even when FullText is empty; a Block with
\* one optional field set to a non-zero value (a defined variant, for Align
\* and Markup) and the others zero encodes to an object with exactly the keys
\* full_text and that field's key.
C13_FieldOmission ==
  (probe.op = "Block" /\ probe.stage = "done")
    => /\ probe.err = NoErr
       /\ Keys(probe.out) =
            IF probe.field = "none" THEN {FullTextKey}
            ELSE {FullTextKey, Quoted(KeyOfField[probe.field])}
       /\ Colons(probe.out) = Cardinality(Keys(probe.out))
       /\ probe.block = ZeroBlock
            => Flatten(probe.out) = <<"{", "\"", "f", "u", "l", "l",
                                     "_", "t", "e", "x", "t", "\"",
                                     ":", "\"", "\"", "}">>

\* a Block with only SeparatorBlockWidth set, to -1, was encoded
C13_Witness ==
  /\ probe.op = "Block"
  /\ probe.stage = "done"
  /\ probe.field = "SeparatorBlockWidth"
  /\ probe.block.SeparatorBlockWidth = -1
  /\ Flatten(probe.out) =
       <<"{", "\"", "f", "u", "l", "l", "_", "t", "e", "x", "t", "\"",
         ":", "\"", "\"", ",", "\"", "s", "e", "p", "a", "r", "a", "t",
         "o", "r", "_", "b", "l", "o", "c", "k", "_", "w", "i", "d",
         "t", "h", "\"", ":", "-", "1", "}">>

(***************************************************************************)
(* Properties of the stream with other lines (SpecLines).                  *)
(***************************************************************************)
\* the bytes that Write w put on the sink
Element(w) == SubSeq(sink, writes[w].at + 1, writes[w].at + writes[w].n)

\* the line that the call of Write w was given
LineOfWrite(w) == calls[writes[w].call].line

Count(s, c) == Cardinality({i \in DOMAIN s : s[i] = c})

\* the element writes that the sink accepted
AcceptedLines == {w \in WritesOfKind("line") : Accepted(w)}

\* C14 as stated: for every StatusLine given to SendLine, the nil line and the
\* empty line included, the element the sink accepted is one JSON array of
\* block objects, one object per Block of the line: it opens with '[', closes
\* with ']' (before the newline of the encoder) and holds as many objects as
\* the line has blocks.
C14_EveryLineAnArray ==
  \A w \in AcceptedLines :
    LET e == Element(w)
        l == LineOfWrite(w)
    IN  /\ e[1] = "["
        /\ e[Len(e) - 1] = "]"
        /\ Count(e, "{") = Len(l.blocks)
        /\ Count(e, "}") = Len(l.blocks)

\* SendLine was given the nil line and returned nil: the sink took the bytes
\* null and a newline
C14_Witness ==
  \E w \in AcceptedLines :
    /\ LineOfWrite(w) = NilLine
    /\ Element(w) = <<"n", "u", "l", "l", "\n">>
    /\ calls[writes[w].call].returned
    /\ calls[writes[w].call].err = NoErr

(***************************************************************************)
(* Properties of calls made after Close and after failures (SpecLong).     *)
(***************************************************************************)
\* Close call c returned nil, and call d acquired the lock after it and has
\* returned
AfterClose(c, d) ==
  /\ calls[c].op = "Close" /\ calls[c].returned /\ calls[c].err = NoErr
  /\ calls[d].returned
  /\ calls[d].turn > calls[c].turn

\* the length of the sink once the ']' of Close call c is on it
CloseEnd(c) == CHOOSE n \in 1..Len(sink) : \E w \in WritesOf(c) : n = writes[w].at + 1

\* call d made a Write that began after the ']' of c, and returned nil if the
\* sink accepted it
WroteAfter(c, d) ==
  \E w \in WritesOf(d) :
    /\ writes[w].at >= CloseEnd(c)
    /\ sink[CloseEnd(c)] = "]"
    /\ Accepted(w) => /\ calls[d].err = NoErr
                      /\ Element(w) = writes[w].req
                      /\ writes[w].n > 0

\* a SendLine call that acquired the lock before call d had its write rejected
\* by the sink: the encoder holds that error when d runs
KeptBefore(d) ==
  \E e \in DOMAIN calls :
    /\ calls[e].op = "SendLine"
    /\ calls[e].turn # 0 /\ calls[e].turn < calls[d].turn
    /\ \E w \in WritesOf(e) : writes[w].err # NoErr

\* C15 as stated: every SendLine or Close call made after a successful Close
\* performs its write, after the closing bracket, and returns nil when the
\* sink accepts it.
C15_LaterCallsAllWrite ==
  \A c, d \in DOMAIN calls : AfterClose(c, d) => WroteAfter(c, d)

\* C15 (amended): the Stream keeps no closed state.  A Close call made after a
\* successful Close performs its write after the closing bracket and returns
\* nil when the sink accepts it; so does a SendLine call, unless the sink
\* rejected the write of an earlier SendLine: then it writes nothing and
\* returns that error, as it would have without the Close.
C15_NoClosedState ==
  \A c, d \in DOMAIN calls :
    AfterClose(c, d) =>
      IF calls[d].op = "SendLine" /\ KeptBefore(d)
        THEN WritesOf(d) = {} /\ calls[d].err = Wrap(SinkErr, MsgLine)
        ELSE WroteAfter(c, d)

\* Close returned nil, then SendLine sent a line and returned nil: the element
\* stands after the closing bracket
C15_Witness ==
  /\ Len(calls) >= 2
  /\ AfterClose(1, 2)
  /\ calls[2].op = "SendLine"
  /\ calls[2].err = NoErr
  /\ sink = Version1Preamble \o <<"]">> \o LineAElement

(***************************************************************************)
(* Properties of single calls (Spec).                                      *)
(***************************************************************************)
\* the message each operation wraps the error of its write in
MsgOf(op) == IF op = "SendLine" THEN MsgLine ELSE MsgClose

\* C16: no SendLine call and no Close call makes more than one Write on the
\* sink, and a call whose Write the sink rejected returns that error, wrapped
\* in the message of its operation, to its own caller; it makes no second
\* attempt and the sink holds nothing of it beyond what the rejected Write took.
C16_OneAttemptErrorReturned ==
  \A c \in DOMAIN calls :
    /\ Cardinality(WritesOf(c)) <= 1
    /\ \A w \in WritesOf(c) :
         (calls[c].returned /\ writes[w].err # NoErr)
           => /\ calls[c].err = Wrap(writes[w].err, MsgOf(calls[c].op))
              /\ calls[c].len1 = calls[c].len0 + writes[w].n

\* the sink rejected the ']' of a Close call, and the call returned the error
C16_Witness ==
  \E c \in DOMAIN calls :
    /\ calls[c].op = "Close"
    /\ calls[c].returned
    /\ calls[c].err = <<"Failed to close infinite json array", "sink: write rejected">>
    /\ \E w \in WritesOf(c) : writes[w].err = SinkErr /\ writes[w].n = 0

(***************************************************************************)
(* Progress (FairSpec).                                                    *)
(***************************************************************************)
\* C17: when every Write on the sink returns and the lock is fair, a call that
\* waits for the write lock acquires it, and every SendLine and Close call
\* that has begun returns.
C17_EveryCallReturns ==
  \A p \in Procs :
    /\ (pc[p] = "lock") ~> (pc[p] = "locked")
    /\ (pc[p] # "idle") ~> (pc[p] = "idle")

\* a SendLine call waits for the lock while a Close call holds it and is in
\* its Write
C17_Witness ==
  \E p, q \in Procs :
    /\ pc[p] = "lock" /\ calls[cid[p]].op = "SendLine"
    /\ wMux = q /\ pc[q] = "write" /\ calls[cid[q]].op = "Close"
    /\ InWrite(q)

(***************************************************************************)
(* The byte source (Spec).                                                 *)
(***************************************************************************)
\* C18: no step of NewStream, SendLine or Close reads from the byte source:
\* the read position of the source is the same after every step.
C18_SourceNeverRead == [][rpos' = rpos]_vars

\* NewStream returned a stream, a SendLine call and a Close call have returned
C18_Witness ==
  /\ nsPc = "done" /\ stream = "ok"
  /\ \E c, d \in DOMAIN calls :
       /\ calls[c].op = "SendLine" /\ calls[c].returned /\ calls[c].err = NoErr
       /\ calls[d].op = "Close" /\ calls[d].returned /\ calls[d].err = NoErr
  /\ rpos = 0

(***************************************************************************)
(* Lines whose encoding fails (SpecLines).                                 *)
(***************************************************************************)
\* the line holds a Block whose Align or Markup is none of the defined values
HasBadBlock(l) ==
  \E i \in DOMAIN l.blocks :
    /\ ~l.blocks[i].isNil
    /\ \/ l.blocks[i].Align \notin AlignmentVariants
       \/ l.blocks[i].Markup \notin MarkupVariants

\* the SendLine calls that were given such a line and have returned
BadCalls ==
  {c \in DOMAIN calls :
     calls[c].op = "SendLine" /\ calls[c].returned /\ HasBadBlock(calls[c].line)}

\* C19: a SendLine call given a line with a Block whose Align or Markup is
\* outside the defined variants returns an error and makes no Write: the sink
\* is as long when it returns as when it acquired the lock, also when blocks
\* before the bad one could be encoded.  The encoder keeps no error of it: a
\* later SendLine with a valid line makes its Write, and when the sink accepts
\* it the element is on the sink whole and the call returns nil (as long as
\* the sink itself rejected no element write before).
C19_BadLineWritesNothing ==
  /\ \A c \in BadCalls :
       /\ calls[c].err # NoErr
       /\ Head(calls[c].err) = "Failed to encode status line into json stream"
       /\ WritesOf(c) = {}
       /\ calls[c].len1 = calls[c].len0
       /\ \A d \in DOMAIN calls :
            (/\ calls[d].op = "SendLine" /\ calls[d].returned
             /\ ~HasBadBlock(calls[d].line)
             /\ calls[d].turn > calls[c].turn
             /\ ~KeptBefore(d))
              => \E w \in WritesOf(d) :
                   Accepted(w) => /\ calls[d].err = NoErr
                                  /\ Element(w) = writes[w].req
                                  /\ writes[w].n = Len(writes[w].req)
  /\ (\A w \in DOMAIN writes : writes[w].err = NoErr) => encErr = NoErr

\* SendLine was given a line whose second block has Align 3 and returned the
\* error of MarshalText; a later SendLine sent a line of one block and
\* returned nil; the sink holds the header, '[' and that one element
C19_Witness ==
  /\ ~pretty
  /\ Len(calls) = 2
  /\ calls[1].line = LineBadAlign /\ calls[1].returned
  /\ calls[1].err = <<"Failed to encode status line into json stream",
                      "json: error calling MarshalText for type i3bar.Alignment",
                      "unknown alignment: 3">>
  /\ calls[2].line = LineA /\ calls[2].returned /\ calls[2].err = NoErr
  /\ calls[2].turn > calls[1].turn
  /\ sink = Version1Preamble \o LineAElement

(***************************************************************************)
(* Close after failed SendLine calls (SpecLong).                           *)
(***************************************************************************)
\* the SendLine calls that acquired the lock before call d and returned an
\* error
FailedBefore(d) ==
  {c \in DOMAIN calls :
     /\ calls[c].op = "SendLine" /\ calls[c].returned /\ calls[c].err # NoErr
     /\ calls[c].turn < calls[d].turn}

\* C20: whatever the earlier SendLine calls returned, and whatever error the
\* encoder holds, a Close call makes its Write of the one byte ']' on the
\* sink, and returns nil when the sink accepts it.
C20_CloseWritesAfterFailures ==
  \A d \in DOMAIN calls :
    (calls[d].op = "Close" /\ calls[d].returned)
      => \E w \in WritesOf(d) :
           /\ writes[w].req = <<"]">>
           /\ Accepted(w) => /\ calls[d].err = NoErr
                             /\ sink[writes[w].at + 1] = "]"
                             /\ calls[d].len1 = calls[d].len0 + 1

\* two SendLine calls failed, the first on the sink and the second on the
\* error the encoder kept; then Close wrote ']' and returned nil
C20_Witness ==
  \E d \in DOMAIN calls :
    /\ calls[d].op = "Close" /\ calls[d].returned /\ calls[d].err = NoErr
    /\ Cardinality(FailedBefore(d)) = 2
    /\ encErr # NoErr
    /\ sink = Version1Preamble \o <<"]">>

====
